---- MODULE Spec2Model ----
(***************************************************************************)
(* Model of videos.py: read_input parses a line-oriented dataset,          *)
(* solve_videos builds a 0/1 linear program (cached / served variables,    *)
(* capacity, linkage and single-assignment constraints), hands it to the   *)
(* external MILP engine and, when a solution exists, generate_output       *)
(* writes the placement to videos.out.                                     *)
(*                                                                         *)
(* A file is a sequence of lines, a line a sequence of integer tokens.     *)
(* Python containers are 0-based; sequences here are 1-based, so python    *)
(* seq[i] is seq[i + 1].  Dictionaries are functions on their key set.     *)
(***************************************************************************)
EXTENDS Integers, Sequences, FiniteSets, TLC

\* ---- bounds of the explored datasets ----
MaxV == 2
MaxC == 2
MaxE == 1
MaxR == 2
MaxSize == 2
MaxX == 2
MaxLat == 2
MaxCount == 1
\* a solved value is a multiple of 1/Unit: 0 is 0.0 and Unit is 1.0
Unit == 2

VARIABLES lines, pc, err, data, cached, served, obj, constrs,
          Status, SolCount, yval, xval, ObjVal, report, cache_content, out

vars == <<lines, pc, err, data, cached, served, obj, constrs,
          Status, SolCount, yval, xval, ObjVal, report, cache_content, out>>

NoData == [V |-> 0, E |-> 0, R |-> 0, C |-> 0, X |-> 0,
           video_sizes |-> <<>>, endpoints |-> <<>>, requests |-> <<>>]

EmptyFn == [k \in {} |-> 0]

\* ---- helpers ----
RECURSIVE SetSum(_, _)
SetSum(S, f) ==
    IF S = {} THEN 0
    ELSE LET k == CHOOSE k \in S : TRUE IN f[k] + SetSum(S \ {k}, f)

RECURSIVE SetToSeq(_)
\* the elements of a set of integers in increasing order
SetToSeq(S) ==
    IF S = {} THEN <<>>
    ELSE LET m == CHOOSE m \in S : \A k \in S : m <= k
         IN <<m>> \o SetToSeq(S \ {m})

\* python seq[i] for a list: negative indices count from the end
PyInRange(seq, i) == i >= 0 - Len(seq) /\ i < Len(seq)
PyIndex(seq, i) == IF i >= 0 THEN seq[i + 1] ELSE seq[Len(seq) + i + 1]

\* dict[key] = value
DictPut(d, key, value) ==
    [k \in DOMAIN d \cup {key} |-> IF k = key THEN value ELSE d[k]]

\* ---- read_input ----
RECURSIVE ReadConnections(_, _, _, _)
ReadConnections(ls, idx, k, conn) ==
    IF k <= 0 THEN [err |-> "none", idx |-> idx, conn |-> conn]
    ELSE IF idx >= Len(ls) THEN [err |-> "IndexError", idx |-> idx, conn |-> conn]
    ELSE IF Len(ls[idx + 1]) # 2 THEN [err |-> "ValueError", idx |-> idx, conn |-> conn]
    ELSE ReadConnections(ls, idx + 1, k - 1,
                         DictPut(conn, ls[idx + 1][1], ls[idx + 1][2]))

RECURSIVE ReadEndpoints(_, _, _, _, _)
ReadEndpoints(ls, idx, idx_e, E, acc) ==
    IF idx_e >= E THEN [err |-> "none", idx |-> idx, endpoints |-> acc]
    ELSE IF idx >= Len(ls) THEN [err |-> "IndexError", idx |-> idx, endpoints |-> acc]
    ELSE IF Len(ls[idx + 1]) # 2 THEN [err |-> "ValueError", idx |-> idx, endpoints |-> acc]
    ELSE LET Ld == ls[idx + 1][1]
             K == ls[idx + 1][2]
             rc == ReadConnections(ls, idx + 1, K, EmptyFn)
         IN IF rc.err # "none"
            THEN [err |-> rc.err, idx |-> rc.idx, endpoints |-> acc]
            ELSE ReadEndpoints(ls, rc.idx, idx_e + 1, E,
                     Append(acc, [id |-> idx_e, Ld |-> Ld, connections |-> rc.conn]))

RECURSIVE ReadRequests(_, _, _, _, _)
ReadRequests(ls, idx, idx_r, R, acc) ==
    IF idx_r >= R THEN [err |-> "none", idx |-> idx, requests |-> acc]
    ELSE IF idx >= Len(ls) THEN [err |-> "IndexError", idx |-> idx, requests |-> acc]
    ELSE IF Len(ls[idx + 1]) # 3 THEN [err |-> "ValueError", idx |-> idx, requests |-> acc]
    ELSE ReadRequests(ls, idx + 1, idx_r + 1, R,
             Append(acc, [id |-> idx_r, video |-> ls[idx + 1][1],
                          endpoint |-> ls[idx + 1][2], count |-> ls[idx + 1][3]]))

\* the result of read_input: err is "none" and data the returned tuple, or err
\* names the exception that ends the run; idx is current_line_idx
read_input(ls) ==
    IF Len(ls) < 1 THEN [err |-> "IndexError", idx |-> 0, data |-> NoData]
    ELSE IF Len(ls[1]) # 5 THEN [err |-> "ValueError", idx |-> 0, data |-> NoData]
    ELSE IF Len(ls) < 2 THEN [err |-> "IndexError", idx |-> 1, data |-> NoData]
    ELSE LET h == ls[1]
             re == ReadEndpoints(ls, 2, 0, h[2], <<>>)
             rr == ReadRequests(ls, re.idx, 0, h[3], <<>>)
         IN IF re.err # "none" THEN [err |-> re.err, idx |-> re.idx, data |-> NoData]
            ELSE IF rr.err # "none" THEN [err |-> rr.err, idx |-> rr.idx, data |-> NoData]
            ELSE [err |-> "none", idx |-> rr.idx,
                  data |-> [V |-> h[1], E |-> h[2], R |-> h[3], C |-> h[4], X |-> h[5],
                            video_sizes |-> ls[2],
                            endpoints |-> re.endpoints,
                            requests |-> rr.requests]]

\* ---- solve_videos: decision variables ----
\* the keys (c, v) of the dictionary cached
CachedVars(d) ==
    {k \in (0 .. d.C - 1) \X (0 .. d.V - 1) : d.video_sizes[k[2] + 1] <= d.X}

\* endpoints[e_id] of a request
EndpointOf(d, r) == PyIndex(d.endpoints, r.endpoint)

Requests(d) == {d.requests[i] : i \in 1 .. Len(d.requests)}

\* the connected caches of request r that pass the test latency < Ld
Beneficial(d, r) ==
    LET ep == EndpointOf(d, r)
    IN {c \in DOMAIN ep.connections : ep.connections[c] < ep.Ld}

\* the keys (r_id, c_id) of the dictionary served
ServedVars(d) ==
    UNION {{<<r.id, c>> : c \in Beneficial(d, r)} : r \in Requests(d)}

\* Saving with the demand count left out
SavingNoCount(Ld, latency, count) == Ld - latency

Saving(Ld, latency, count) == (Ld - latency) * count

\* obj_expr: the coefficient of each served variable
ObjExpr(d) ==
    [k \in ServedVars(d) |->
        LET r == d.requests[k[1] + 1]
            ep == EndpointOf(d, r)
        IN Saving(ep.Ld, ep.connections[k[2]], r.count)]

\* ---- solve_videos: constraints ----
\* A constraint is [kind, idx, sv, cv]: sv a set of served keys, cv a set of
\* cached keys.
\*   link  : sum of sv <= sum of cv          (served[r,c] <= cached[c,v])
\*   zero  : sum of sv == 0                  (served[r,c] == 0)
\*   cap   : sum of size(v) * cv <= X        (cap_c)
\*   assign: sum of sv <= 1                  (assign_r)
\* LinkConstraints with the else branch (served == 0) left out
LinkConstraintsNoZero(d, cachedKeys) ==
    UNION {{[kind |-> "link", idx |-> r.id, sv |-> {<<r.id, c>>}, cv |-> {<<c, r.video>>}]
            : c \in {b \in Beneficial(d, r) : <<b, r.video>> \in cachedKeys}}
           : r \in Requests(d)}

LinkConstraints(d, cachedKeys) ==
    UNION {{IF <<c, r.video>> \in cachedKeys
            THEN [kind |-> "link", idx |-> r.id, sv |-> {<<r.id, c>>},
                  cv |-> {<<c, r.video>>}]
            ELSE [kind |-> "zero", idx |-> r.id, sv |-> {<<r.id, c>>}, cv |-> {}]
            : c \in Beneficial(d, r)} : r \in Requests(d)}

\* CapConstraints with the loop starting at cache 1
CapConstraintsSkipFirst(d, cachedKeys) ==
    {[kind |-> "cap", idx |-> c, sv |-> {},
      cv |-> {k \in cachedKeys : k[1] = c /\ k[2] \in 0 .. d.V - 1}]
     : c \in 1 .. d.C - 1}

CapConstraints(d, cachedKeys) ==
    {[kind |-> "cap", idx |-> c, sv |-> {},
      cv |-> {k \in cachedKeys : k[1] = c /\ k[2] \in 0 .. d.V - 1}]
     : c \in 0 .. d.C - 1}

AssignVars(d, r, servedKeys) ==
    {<<r.id, c>> : c \in {c \in DOMAIN EndpointOf(d, r).connections :
                              <<r.id, c>> \in servedKeys}}

\* AssignConstraints with the constraint added after the loop, for the last
\* request only
AssignConstraintsLastOnly(d, servedKeys) ==
    {[kind |-> "assign", idx |-> r.id, sv |-> AssignVars(d, r, servedKeys), cv |-> {}]
     : r \in {q \in Requests(d) : /\ AssignVars(d, q, servedKeys) # {}
                                   /\ q.id = Len(d.requests) - 1}}

AssignConstraints(d, servedKeys) ==
    {[kind |-> "assign", idx |-> r.id, sv |-> AssignVars(d, r, servedKeys), cv |-> {}]
     : r \in {q \in Requests(d) : AssignVars(d, q, servedKeys) # {}}}

\* the exception that ends model building, or "none": video_sizes[v] at line
\* 63 and endpoints[e_id] at line 78
BuildError(d) ==
    IF d.C >= 1 /\ d.V > Len(d.video_sizes) THEN "IndexError"
    ELSE IF \E r \in Requests(d) : ~PyInRange(d.endpoints, r.endpoint) THEN "IndexError"
    ELSE "none"

\* ---- the external engine's view of the model ----
Values(keys) == [keys -> {0, Unit}]

Sizes(d, keys) == [k \in keys |-> d.video_sizes[k[2] + 1]]

\* Satisfies with assign_r as an equality: every request served exactly once
SatisfiesExactlyOne(con, d, y, x) ==
    CASE con.kind = "link" -> SetSum(con.sv, x) <= SetSum(con.cv, y)
      [] con.kind = "zero" -> SetSum(con.sv, x) = 0
      [] con.kind = "cap" ->
            SetSum(con.cv, [k \in con.cv |-> Sizes(d, con.cv)[k] * y[k]]) <= d.X * Unit
      [] con.kind = "assign" -> SetSum(con.sv, x) = Unit

Satisfies(con, d, y, x) ==
    CASE con.kind = "link" -> SetSum(con.sv, x) <= SetSum(con.cv, y)
      [] con.kind = "zero" -> SetSum(con.sv, x) = 0
      [] con.kind = "cap" ->
            SetSum(con.cv, [k \in con.cv |-> Sizes(d, con.cv)[k] * y[k]]) <= d.X * Unit
      [] con.kind = "assign" -> SetSum(con.sv, x) <= Unit

Feasible(d, cs, y, x) == \A con \in cs : Satisfies(con, d, y, x)

FeasibleSet(d, cKeys, sKeys, cs) ==
    {a \in Values(cKeys) \X Values(sKeys) : Feasible(d, cs, a[1], a[2])}

Objective(o, x) == SetSum(DOMAIN o, [k \in DOMAIN o |-> o[k] * x[k]]) \div Unit

Max(S) == CHOOSE m \in S : \A k \in S : k <= m

\* ---- generate_output ----
\* IsTrue with >= 0.5 in place of > 0.5
IsTrueAtHalf(val) == 2 * val >= Unit

IsTrue(val) == 2 * val > Unit

VideosInCache(c, V, cached_vars, X) ==
    SetToSeq({v \in 0 .. V - 1 : <<c, v>> \in cached_vars /\ IsTrue(X[<<c, v>>])})

RECURSIVE CacheContent(_, _, _, _, _)
\* the dictionary cache_content, in insertion order, for caches c .. C-1
CacheContent(c, C, V, cached_vars, X) ==
    IF c >= C THEN <<>>
    ELSE LET videos_in_cache == VideosInCache(c, V, cached_vars, X)
         IN (IF videos_in_cache # <<>>
             THEN <<[c |-> c, videos |-> videos_in_cache]>>
             ELSE <<>>) \o CacheContent(c + 1, C, V, cached_vars, X)

RECURSIVE Join(_)
Join(videos) ==
    IF videos = <<>> THEN ""
    ELSE IF Len(videos) = 1 THEN ToString(videos[1])
    ELSE ToString(videos[1]) \o " " \o Join(Tail(videos))

\* the strings written to videos.out, one per f.write
OutputWrites(content) ==
    <<ToString(Len(content)) \o "\n">>
    \o [i \in 1 .. Len(content) |->
          ToString(content[i].c) \o " " \o Join(content[i].videos) \o "\n"]

\* videos.out is not created
NotWritten == <<>>

\* ---- the datasets explored ----
\* the connection lines of an endpoint: any set of cache ids below MaxC, each
\* with a latency (a cache id at or above the header's C is out of range)
ConnLines ==
    UNION {{[i \in 1 .. Cardinality(S) |-> <<SetToSeq(S)[i], lat[SetToSeq(S)[i]]>>]
            : lat \in [S -> 1 .. MaxLat]} : S \in SUBSET (0 .. MaxC - 1)}

EndpointSpecs == [Ld : 1 .. MaxLat + 1, conns : ConnLines]

SeqsUpTo(n, S) == UNION {[1 .. k -> S] : k \in 1 .. n}

RECURSIVE EndpointLines(_, _)
\* dK is added to the declared K of the first endpoint
EndpointLines(eps, dK) ==
    IF eps = <<>> THEN <<>>
    ELSE <<<<eps[1].Ld, Len(eps[1].conns) + dK>>>> \o eps[1].conns
         \o EndpointLines(Tail(eps), 0)

\* one deviation from a consistent file at a time: a header count one too
\* large, a negative capacity, request endpoints shifted out of range
Variants ==
    {[dV |-> 0, dR |-> 0, dK |-> 0, negX |-> FALSE, dE |-> 0],
     [dV |-> 1, dR |-> 0, dK |-> 0, negX |-> FALSE, dE |-> 0],
     [dV |-> 0, dR |-> 1, dK |-> 0, negX |-> FALSE, dE |-> 0],
     [dV |-> 0, dR |-> 0, dK |-> 1, negX |-> FALSE, dE |-> 0],
     [dV |-> 0, dR |-> 0, dK |-> 0, negX |-> TRUE, dE |-> 0],
     [dV |-> 0, dR |-> 0, dK |-> 0, negX |-> FALSE, dE |-> 1]}

File(C, X, sizes, eps, reqs, var) ==
    <<<<Len(sizes) + var.dV, Len(eps), Len(reqs) + var.dR, C,
        IF var.negX THEN 0 - 1 ELSE X>>, sizes>>
    \o EndpointLines(eps, var.dK)
    \o [i \in 1 .. Len(reqs) |-> <<reqs[i][1], reqs[i][2] + var.dE, reqs[i][3]>>]

\* the scenario of the specification: one video of size 5, one cache of
\* capacity 10, one endpoint (Ld 100, latency 10 to cache 0), one request
ScenarioFile == <<<<1, 1, 1, 1, 10>>, <<5>>, <<100, 1>>, <<0, 10>>, <<0, 0, 1>>>>

\* ---- the run of solve_videos ----
Init ==
    /\ \/ \E sizes \in SeqsUpTo(MaxV, 1 .. MaxSize), eps \in SeqsUpTo(MaxE, EndpointSpecs) :
             \E reqs \in SeqsUpTo(MaxR, (0 .. Len(sizes) - 1) \X (0 .. Len(eps) - 1)
                                         \X (0 .. MaxCount)) :
                \E var \in Variants, C \in 1 .. MaxC, X \in 1 .. MaxX :
                   lines = File(C, X, sizes, eps, reqs, var)
       \/ lines = ScenarioFile
    /\ pc = "start"
    /\ err = "none"
    /\ data = NoData
    /\ cached = {}
    /\ served = {}
    /\ obj = EmptyFn
    /\ constrs = {}
    /\ Status = "LOADED"
    /\ SolCount = 0
    /\ yval = EmptyFn
    /\ xval = EmptyFn
    /\ ObjVal = 0
    /\ report = "none"
    /\ cache_content = <<>>
    /\ out = NotWritten

\* line 52: read_input returns the dataset or raises
ReadInput ==
    /\ pc = "start"
    /\ LET res == read_input(lines)
       IN IF res.err = "none"
          THEN /\ data' = res.data
               /\ pc' = "loaded"
               /\ err' = err
          ELSE /\ data' = data
               /\ pc' = "crashed"
               /\ err' = res.err
    /\ UNCHANGED <<lines, cached, served, obj, constrs, Status, SolCount, yval, xval,
                   ObjVal, report, cache_content, out>>

\* lines 54-128: the variables, the objective and the constraints
BuildModel ==
    /\ pc = "loaded"
    /\ IF BuildError(data) = "none"
       THEN /\ cached' = CachedVars(data)
            /\ served' = ServedVars(data)
            /\ obj' = ObjExpr(data)
            /\ constrs' = LinkConstraints(data, CachedVars(data))
                          \cup CapConstraints(data, CachedVars(data))
                          \cup AssignConstraints(data, ServedVars(data))
            /\ pc' = "built"
            /\ err' = err
       ELSE /\ pc' = "crashed"
            /\ err' = BuildError(data)
            /\ UNCHANGED <<cached, served, obj, constrs>>
    /\ UNCHANGED <<lines, data, Status, SolCount, yval, xval, ObjVal, report,
                   cache_content, out>>

MIPGapPerMille == 5

\* the best objective value of the built model
Optimum(d, cKeys, sKeys, cs, o) ==
    Max({Objective(o, a[2]) : a \in FeasibleSet(d, cKeys, sKeys, cs)})

\* the statuses the engine can return with a solution of value val
SolvedStatuses(val, best) ==
    {"INTERRUPTED"} \cup
    (IF 1000 * (best - val) <= MIPGapPerMille * val THEN {"OPTIMAL"} ELSE {})

\* lines 132-137: the engine returns a solution, the placement is written
SolutionFound ==
    /\ pc = "built"
    /\ \E a \in FeasibleSet(data, cached, served, constrs) :
         \E st \in SolvedStatuses(Objective(obj, a[2]),
                                  Optimum(data, cached, served, constrs, obj)) :
            /\ Status' = st
            /\ yval' = a[1]
            /\ xval' = a[2]
            /\ ObjVal' = Objective(obj, a[2])
            /\ cache_content' = CacheContent(0, data.C, data.V, cached, a[1])
            /\ out' = OutputWrites(CacheContent(0, data.C, data.V, cached, a[1]))
    /\ SolCount' = 1
    /\ report' = "La solutioni optimal est"
    /\ pc' = "done"
    /\ UNCHANGED <<lines, err, data, cached, served, obj, constrs>>

\* the statuses the engine can return without a solution
UnsolvedStatuses(d, cKeys, sKeys, cs) ==
    {"INTERRUPTED", "NUMERIC"} \cup
    (IF FeasibleSet(d, cKeys, sKeys, cs) = {} THEN {"INFEASIBLE"} ELSE {})

\* lines 132-139: the engine returns no solution
NoSolution ==
    /\ pc = "built"
    /\ \E st \in UnsolvedStatuses(data, cached, served, constrs) : Status' = st
    /\ SolCount' = 0
    /\ report' = "Pas de solu trouve"
    /\ pc' = "done"
    /\ UNCHANGED <<lines, err, data, cached, served, obj, constrs, yval, xval, ObjVal,
                   cache_content, out>>

\* line 132: the engine raises
EngineError ==
    /\ pc = "built"
    /\ pc' = "crashed"
    /\ err' = "GurobiError"
    /\ UNCHANGED <<lines, data, cached, served, obj, constrs, Status, SolCount, yval,
                   xval, ObjVal, report, cache_content, out>>

Next == ReadInput \/ BuildModel \/ SolutionFound \/ NoSolution \/ EngineError

Spec == Init /\ [][Next]_vars

\* ---- generate_output on its own ----
\* cached_vars as solve_videos builds it (every cache, the videos that fit),
\* with any solved values
InitOut ==
    /\ \E C \in 1 .. MaxC, V \in 1 .. MaxV :
         \E F \in SUBSET (0 .. V - 1) :
            /\ data = [NoData EXCEPT !.C = C, !.V = V]
            /\ cached = (0 .. C - 1) \X F
            /\ yval \in [(0 .. C - 1) \X F -> {0, Unit \div 2, Unit}]
    /\ lines = <<>>
    /\ pc = "extract"
    /\ err = "none"
    /\ served = {}
    /\ obj = EmptyFn
    /\ constrs = {}
    /\ Status = "OPTIMAL"
    /\ SolCount = 1
    /\ xval = EmptyFn
    /\ ObjVal = 0
    /\ report = "none"
    /\ cache_content = <<>>
    /\ out = NotWritten

\* lines 141-165
GenerateOutput ==
    /\ pc = "extract"
    /\ cache_content' = CacheContent(0, data.C, data.V, cached, yval)
    /\ out' = OutputWrites(CacheContent(0, data.C, data.V, cached, yval))
    /\ pc' = "written"
    /\ UNCHANGED <<lines, err, data, cached, served, obj, constrs, Status, SolCount,
                   yval, xval, ObjVal, report>>

NextOut == GenerateOutput

SpecOut == InitOut /\ [][NextOut]_vars

\* ---- the datasets the claims speak of ----
\* the header counts V, E, R and every K match the lines and values present
CountsMatch(ls) ==
    LET res == read_input(ls)
    IN /\ res.err = "none"
       /\ res.idx = Len(ls)
       /\ res.data.V = Len(res.data.video_sizes)
       /\ res.data.E = Len(res.data.endpoints)
       /\ res.data.R = Len(res.data.requests)

\* every referenced cache, endpoint and video index is in its declared range
RefsInRange(d) ==
    /\ \A i \in 1 .. Len(d.endpoints) :
          DOMAIN d.endpoints[i].connections \subseteq 0 .. d.C - 1
    /\ \A r \in Requests(d) : r.endpoint \in 0 .. d.E - 1 /\ r.video \in 0 .. d.V - 1

\* a well-formed dataset: consistent counts, references in range, a capacity
\* and demand counts that are not negative
WellFormed(ls) ==
    /\ CountsMatch(ls)
    /\ RefsInRange(read_input(ls).data)
    /\ read_input(ls).data.X >= 0
    /\ \A r \in Requests(read_input(ls).data) : r.count >= 0

Solved == pc = "done" /\ SolCount > 0

\* the videos the output placement lists for cache c
Listed(c) ==
    UNION {{cache_content[i].videos[j] : j \in 1 .. Len(cache_content[i].videos)}
           : i \in {n \in 1 .. Len(cache_content) : cache_content[n].c = c}}

ServedVarsOf(r_id) == {k \in served : k[1] = r_id}

\* ---- C1 ----
\* C1: for every well-formed dataset, every served[r,c] variable created by
\* solve_videos has a strictly positive saving coefficient in the objective.
C1_PositiveSaving ==
    (pc \in {"built", "done"} /\ WellFormed(lines)) => \A k \in served : obj[k] > 0

\* ---- C2 ----
\* C2: in the placement written for any assignment that satisfies the built
\* constraints, the sizes of the videos listed for a cache sum to at most X.
C2_CapacityRespected ==
    Solved =>
        \A c \in 0 .. data.C - 1 :
            SetSum(Listed(c), [v \in Listed(c) |-> data.video_sizes[v + 1]]) <= data.X

C2_Witness ==
    /\ Solved
    /\ \E c \in 0 .. data.C - 1 :
          /\ Cardinality(Listed(c)) = 2
          /\ SetSum(Listed(c), [v \in Listed(c) |-> data.video_sizes[v + 1]]) = data.X

\* ---- C3 ----
\* C3: every served variable of a request is a term of that request's assign
\* constraint, a request without served variables has no assign constraint, and
\* in any assignment that satisfies the constraints at most one cache serves a
\* request.
C3_AtMostOneCache ==
    /\ pc \in {"built", "done"} =>
          /\ \A k \in served : \E con \in constrs :
                con.kind = "assign" /\ con.idx = k[1] /\ k \in con.sv
          /\ \A con \in constrs :
                con.kind = "assign" => ServedVarsOf(con.idx) # {}
    /\ Solved =>
          \A r \in Requests(data) :
              Cardinality({k \in ServedVarsOf(r.id) : 2 * xval[k] > Unit}) <= 1

C3_Witness ==
    /\ Solved
    /\ \E r \in Requests(data) :
          /\ Cardinality(ServedVarsOf(r.id)) = 2
          /\ Cardinality({k \in ServedVarsOf(r.id) : 2 * xval[k] > Unit}) = 1
          /\ \A k \in ServedVarsOf(r.id) :
                /\ <<k[2], r.video>> \in cached
                /\ 2 * yval[<<k[2], r.video>>] > Unit

\* ---- C4 ----
\* C4: a served[r,c] variable exists only if cached[c, video(r)] exists, and
\* it carries the constraint served[r,c] <= cached[c, video(r)].
C4_ServedOnlyIfCached ==
    (pc \in {"built", "done"} /\ WellFormed(lines)) =>
        \A k \in served :
            LET v == data.requests[k[1] + 1].video
            IN /\ <<k[2], v>> \in cached
               /\ \E con \in constrs :
                     con.kind = "link" /\ con.sv = {k} /\ con.cv = {<<k[2], v>>}

\* ---- C5 ----
\* C5: a dataset whose header counts do not match its lines, or that refers to
\* a cache or endpoint index out of range, is rejected while it is loaded: it
\* never reaches model building and never produces a placement.
C5_MalformedRejected ==
    ~(CountsMatch(lines) /\ RefsInRange(read_input(lines).data)) =>
        /\ pc \notin {"built", "done"}
        /\ out = NotWritten

\* ---- C6 ----
\* C6: a video larger than the capacity is listed for no cache, and every
\* served variable of a request for it is 0, so the request adds nothing to the
\* objective.
C6_TooLargeNeverStored ==
    Solved =>
        \A v \in 0 .. data.V - 1 :
            data.video_sizes[v + 1] > data.X =>
                /\ \A i \in 1 .. Len(cache_content) :
                      \A j \in 1 .. Len(cache_content[i].videos) :
                          cache_content[i].videos[j] # v
                /\ \A r \in Requests(data) :
                      r.video = v =>
                          \A k \in ServedVarsOf(r.id) :
                              xval[k] = 0 /\ obj[k] * xval[k] = 0

C6_Witness ==
    /\ Solved
    /\ cache_content # <<>>
    /\ \E r \in Requests(data) :
          /\ r.video \in 0 .. data.V - 1
          /\ data.video_sizes[r.video + 1] > data.X
          /\ r.count > 0
          /\ ServedVarsOf(r.id) # {}

\* ---- C7 ----
\* the placements of videos in caches that respect a capacity
Placements(d, capacity) ==
    {P \in SUBSET ((0 .. d.C - 1) \X (0 .. d.V - 1)) :
        \A c \in 0 .. d.C - 1 :
            LET held == {k \in P : k[1] = c}
            IN SetSum(held, [k \in held |-> d.video_sizes[k[2] + 1]]) <= capacity}

\* the latency a placement saves for request r: its demand count times the
\* gain of the fastest connected cache that holds the video and beats Ld
SavedFor(d, P, r) ==
    LET ep == d.endpoints[r.endpoint + 1]
        gains == {ep.Ld - ep.connections[c] :
                    c \in {b \in DOMAIN ep.connections :
                              <<b, r.video>> \in P /\ ep.connections[b] < ep.Ld}}
    IN IF gains = {} THEN 0 ELSE r.count * Max(gains)

TotalSaved(d, P) ==
    SetSum(1 .. Len(d.requests),
           [i \in 1 .. Len(d.requests) |-> SavedFor(d, P, d.requests[i])])

BestSaving(d, capacity) == Max({TotalSaved(d, P) : P \in Placements(d, capacity)})

\* C7: for a well-formed dataset the optimum of the built model is the largest
\* total latency saving of a placement that respects the capacity; in the
\* scenario the optimal solution is cached[0,0] = served[0,0] = 1 with
\* objective 90 and output "1\n0 0\n".
C7_OptimumIsBestSaving ==
    /\ (pc = "built" /\ WellFormed(lines)) =>
          Optimum(data, cached, served, constrs, obj) = BestSaving(data, data.X)
    /\ (pc = "done" /\ lines = ScenarioFile /\ Status = "OPTIMAL") =>
          /\ yval[<<0, 0>>] = Unit
          /\ xval[<<0, 0>>] = Unit
          /\ ObjVal = 90
          /\ out = <<"1\n", "0 0\n">>

\* the capacity binds: more would be saved if every video fitted everywhere
C7_Witness ==
    /\ pc = "built"
    /\ WellFormed(lines)
    /\ Cardinality(served) >= 3
    /\ Optimum(data, cached, served, constrs, obj) > 0
    /\ Optimum(data, cached, served, constrs, obj)
          < BestSaving(data, SetSum(1 .. data.V, data.video_sizes))

\* ---- C8 ----
\* the videos of cache c whose solved value exceeds 0.5
Stored(c) ==
    {v \in 0 .. data.V - 1 : <<c, v>> \in cached /\ 2 * yval[<<c, v>>] > Unit}

NonEmptyCaches == {c \in 0 .. data.C - 1 : Stored(c) # {}}

\* C8: the first line written is the number of caches with a stored video;
\* then comes exactly one line per such cache, with the cache id and its
\* stored videos in strictly increasing order; a video is listed if and only
\* if its variable exists and its value exceeds 0.5.
C8_OutputIsPlacement ==
    pc = "written" =>
        /\ Len(out) = 1 + Cardinality(NonEmptyCaches)
        /\ out[1] = ToString(Cardinality(NonEmptyCaches)) \o "\n"
        /\ Len(cache_content) = Cardinality(NonEmptyCaches)
        /\ \A i \in 1 .. Len(cache_content) :
              LET e == cache_content[i]
              IN /\ e.c \in NonEmptyCaches
                 /\ {e.videos[j] : j \in 1 .. Len(e.videos)} = Stored(e.c)
                 /\ \A j \in 1 .. Len(e.videos) - 1 : e.videos[j] < e.videos[j + 1]
                 /\ \A n \in 1 .. Len(cache_content) :
                       n # i => cache_content[n].c # e.c
                 /\ out[i + 1] = ToString(e.c) \o " " \o Join(e.videos) \o "\n"
        /\ (NonEmptyCaches = {0, 1} /\ Stored(0) = {0, 1} /\ Stored(1) = {1}) =>
              out = <<"2\n", "0 0 1\n", "1 1\n">>
        /\ (NonEmptyCaches = {1} /\ Stored(1) = {0}) => out = <<"1\n", "1 0\n">>

C8_Witness ==
    /\ pc = "written"
    /\ \E c \in 0 .. data.C - 1 :
          /\ Stored(c) = {}
          /\ \E v \in 0 .. data.V - 1 :
                <<c, v>> \in cached /\ 2 * yval[<<c, v>>] = Unit
    /\ \E c \in 0 .. data.C - 1 : Cardinality(Stored(c)) = 2

\* ---- C9 ----
ZeroOn(keys) == [k \in keys |-> 0]

\* C9: for a well-formed dataset the assignment that sets every cached and
\* every served variable to 0 satisfies every constraint of the built model.
C9_EmptyPlacementFeasible ==
    (pc = "built" /\ WellFormed(lines)) =>
        Feasible(data, constrs, ZeroOn(cached), ZeroOn(served))

C9_Witness ==
    /\ pc = "built"
    /\ WellFormed(lines)
    /\ \A kind \in {"link", "zero", "cap", "assign"} :
          \E con \in constrs : con.kind = kind

\* ---- C10 ----
\* C10: a solver failure (infeasibility, an internal solver error) is never
\* reported the way a plain absence of a solution is: same message, no file,
\* normal end of the run.
C10_FailureDistinguished ==
    (pc = "done" /\ Status \in {"INFEASIBLE", "NUMERIC"}) =>
        ~(report = "Pas de solu trouve" /\ out = NotWritten)
====
